---- MODULE Spec2Model ----
(***************************************************************************)
(* Model of the enrichment-and-scoring pipeline of vuln-prioritizer:       *)
(*   services/risk_scorer.py  RiskScorer (calculate_risk_score,            *)
(*                            enrich_vulnerability, score_vulnerabilities) *)
(*   services/epss_client.py  EPSSClient (get_epss_score,                  *)
(*                            get_epss_scores_bulk), epss_cache            *)
(*   services/nvd_client.py   NVDClient.get_cve, cve_cache                 *)
(*   services/kev_client.py   KEVClient, kev_catalog, kev_cve_set          *)
(*                                                                         *)
(* Numbers.  The code computes in binary floating point; the model uses    *)
(* exact decimal fixed point:                                              *)
(*   cvss_score                     in tenths           (9.8   -> 98)      *)
(*   epss_score                     in 1e-5             (0.94  -> 94000)   *)
(*   asset_criticality, reachability in tenths          (1.5   -> 15)      *)
(*   components and raw_score       in 1e-6 score points (28.5 -> 28500000)*)
(*   values passed through round(x, 2)  in hundredths   (28.5  -> 2850)    *)
(* An Optional value is a sequence: <<>> is None, <<v>> is the value v.    *)
(*                                                                         *)
(* Specifications.                                                         *)
(*   SpecScore     one direct call of calculate_risk_score                 *)
(*   Spec          score_vulnerabilities, call after call, with the        *)
(*                 catalog replaced at any time; the clock stands still    *)
(*   SpecTime      the same calls with the clock of the caches advancing   *)
(*   SpecAnswered  the same calls with an upstream that answers every      *)
(*                 request                                                 *)
(*   SpecKev       refresh_catalog step by step, with its retries, next to *)
(*                 calls of score_vulnerabilities                          *)
(***************************************************************************)
EXTENDS Integers, Sequences, FiniteSets, TLC

VARIABLES
    \* one call of RiskScorer.calculate_risk_score: its five arguments,
    \* its position and its return value
    cvss_score, epss_score, in_kev, asset_criticality, network_reachability,
    score_pc, score_result,
    \* module-level state of the three source clients
    cve_cache,            \* nvd_client.cve_cache: cve_id -> parsed CVE data
    epss_cache,           \* epss_client.epss_cache: cve_id -> EPSS data
    kev_catalog,          \* kev_client.kev_catalog: cve_id -> entry
    kev_cve_set,          \* kev_client.kev_cve_set
    kev_last_updated,     \* kev_client.kev_last_updated
    \* one call of KEVClient.refresh_catalog
    kev_pc,               \* where the call is
    kev_attempts,         \* attempts of the call that have failed
    kev_count,            \* its return value
    \* history of the refresh in progress (not program state)
    kev_before,           \* <<kev_catalog, kev_cve_set>> when it was called
    kev_feed,             \* the last payload it received
    \* the TTLCache objects keep, for every key, the time it expires at
    cve_expires,          \* cve_id -> expiry time of its cve_cache item
    epss_expires,         \* cve_id -> expiry time of its epss_cache item
    now,                  \* the clock the caches read (seconds)
    \* what the upstream services hold (environment, fixed over a behaviour)
    nvd_feed,             \* cve_id -> None (unknown CVE) or Some(CVE data)
    epss_feed,            \* cve_id -> None (no EPSS data) or Some(epss)
    \* one call of RiskScorer.score_vulnerabilities
    pc,                   \* where the call is
    cve_ids, req_criticality, req_reachability,   \* its arguments
    uncached_cves,        \* get_epss_scores_bulk: uncached_cves
    batch_start,          \* get_epss_scores_bulk: i of the batch loop
    epss_scores,          \* score_vulnerabilities: epss_scores
    idx,                  \* position of the for loop over cve_ids (1-based)
    attempts,             \* failed attempts of the get_cve call in progress
    nvd_data,             \* enrich_vulnerability: nvd_data
    enriched_at,          \* enrich_vulnerability: result["enriched_at"]
    results,              \* score_vulnerabilities: results
    \* history of the call in progress (not program state)
    bulk_cached,          \* identifiers found in epss_cache by the bulk fetch
    batch_log,            \* one entry per batch request issued
    failed_cve,           \* identifiers whose get_cve exhausted its attempts
    \* a direct call of NVDClient._parse_cve_response
    vuln_data,            \* the argument (one item of the NVD response)
    parse_pc,             \* "idle", "call", "returned" or "raised"
    cve_data,             \* the returned dict
    \* concurrent direct calls of get_cve / get_epss_score
    callers,              \* per caller: position, arguments, attempts, outcome
    requests_sent,        \* history: requests issued per client and identifier
    \* one create_scan request after the other, and the tables it writes
    scan_pc,              \* "idle", "lookup", "nvd", "epss" or "ended"
    scan_outcome,         \* "none", "returned" or "raised"
    scan_cve_ids,         \* scan_data.cve_ids
    scan_idx,             \* position of the for loop over cve_ids (1-based)
    scan_attempts,        \* failed attempts of the get_cve call in progress
    scan_nvd_data,        \* enrich_vulnerability: nvd_data
    severity_counts,      \* create_scan: severity_counts
    db_scans,             \* committed rows of table scans (row id = index)
    db_vulns,             \* committed rows of table vulnerabilities, by cve_id
    db_links,             \* committed ScanVulnerability rows
    session_links         \* ScanVulnerability rows added but not committed

scoreVars == <<cvss_score, epss_score, in_kev, asset_criticality,
               network_reachability, score_pc, score_result>>

nvdCacheVars == <<cve_cache, cve_expires>>
epssCacheVars == <<epss_cache, epss_expires>>
kevVars == <<kev_catalog, kev_cve_set, kev_last_updated>>
refreshVars == <<kev_pc, kev_attempts, kev_count, kev_before, kev_feed>>
clientVars == <<nvdCacheVars, epssCacheVars, kevVars>>
feedVars == <<nvd_feed, epss_feed>>
callVars == <<pc, cve_ids, req_criticality, req_reachability, uncached_cves,
              batch_start, epss_scores, idx, attempts, nvd_data, enriched_at,
              results>>
historyVars == <<bulk_cached, batch_log, failed_cve>>
bulkVars == <<clientVars, feedVars, callVars, historyVars>>

parseVars == <<vuln_data, parse_pc, cve_data>>

callerVars == <<callers, requests_sent>>
scanCallVars == <<scan_pc, scan_outcome, scan_cve_ids, scan_idx, scan_attempts,
                  scan_nvd_data, severity_counts>>
dbVars == <<db_scans, db_vulns, db_links, session_links>>
scanVars == <<scanCallVars, dbVars>>

vars == <<scoreVars, bulkVars, refreshVars, now, parseVars, callerVars,
          scanVars>>

None == <<>>
Some(v) == <<v>>

\* one score point in the unit of raw_score (1e-6 points)
Point == 1000 * 1000

(***************************************************************************)
(* RiskScorer class attributes (weights as weight * 100).                  *)
(***************************************************************************)
CVSS_WEIGHT == 30
EPSS_WEIGHT == 35
KEV_WEIGHT == 25
CONTEXT_WEIGHT == 10
CRITICAL_THRESHOLD == 70
HIGH_THRESHOLD == 40
MEDIUM_THRESHOLD == 20
\* the literals of `cvss_score or 5.0` and `epss_score or 0.1`
DEFAULT_CVSS == 50
DEFAULT_EPSS == 10000
\* the cap of min(raw_score * 1.5, 100), in points
SCORE_CAP == 100

Min(a, b) == IF a <= b THEN a ELSE b

\* Python `x or d` on an Optional[float]: None and 0.0 are both falsy.
OrDefault(x, d) == IF x = None \/ x[1] = 0 THEN d ELSE x[1]

\* round(x, 2) of a value given in 1e-6, result in hundredths (half to even,
\* Python's rule for a value that is exactly representable)
Round2(x) ==
    LET q == x \div 10000
        r == x % 10000
    IN  IF r < 5000 THEN q
        ELSE IF r > 5000 THEN q + 1
        ELSE IF q % 2 = 0 THEN q ELSE q + 1

\* cvss_normalized * CVSS_WEIGHT * 100, cvss_normalized = (cvss_score or 5.0) / 10.0
CvssComponent(cvss) == OrDefault(cvss, DEFAULT_CVSS) * CVSS_WEIGHT * 10000

\* epss_normalized * EPSS_WEIGHT * 100, epss_normalized = epss_score or 0.1
EpssComponent(epss) == OrDefault(epss, DEFAULT_EPSS) * EPSS_WEIGHT * 10

\* the bonus with the urgency multiplier already applied to it
KevComponent_Multiplied(kev) ==
    IF kev THEN KEV_WEIGHT * Point + (KEV_WEIGHT * Point) \div 2 ELSE 0

\* kev_component = 0; if in_kev: kev_component = KEV_WEIGHT * 100
KevComponent(kev) == IF kev THEN KEV_WEIGHT * Point ELSE 0

\* context_factor * CONTEXT_WEIGHT * 100,
\* context_factor = (asset_criticality + network_reachability) / 2
ContextComponent(ac, nr) == (ac + nr) * CONTEXT_WEIGHT * 50000

\* if in_kev: raw_score = min(raw_score * 1.5, 100)
\* (every component is an even number of 1e-6, so raw \div 2 is exact)
ApplyKevMultiplier(raw, kev) ==
    IF kev THEN Min(raw + raw \div 2, SCORE_CAP * Point) ELSE raw

\* the in_kev argument never reaches the score (neither bonus nor multiplier)
RawScore_IgnoresKev(cvss, epss, kev, ac, nr) ==
    CvssComponent(cvss) + EpssComponent(epss) + ContextComponent(ac, nr)

\* raw_score after the urgency multiplier
RawScore(cvss, epss, kev, ac, nr) ==
    ApplyKevMultiplier(
        CvssComponent(cvss) + EpssComponent(epss) + KevComponent(kev)
            + ContextComponent(ac, nr),
        kev)

\* the if/elif chain on raw_score (not on the rounded risk_score)
Severity(raw) ==
    IF raw >= CRITICAL_THRESHOLD * Point THEN "critical"
    ELSE IF raw >= HIGH_THRESHOLD * Point THEN "high"
    ELSE IF raw >= MEDIUM_THRESHOLD * Point THEN "medium"
    ELSE "low"

\* RiskScorer.calculate_risk_score: the returned dict
calculate_risk_score(cvss, epss, kev, ac, nr) ==
    LET raw == RawScore(cvss, epss, kev, ac, nr)
    IN  [ risk_score |-> Round2(raw),
          severity   |-> Severity(raw),
          components |->
              [ cvss_component    |-> Round2(CvssComponent(cvss)),
                epss_component    |-> Round2(EpssComponent(epss)),
                kev_component     |-> Round2(KevComponent(kev)),
                context_component |-> Round2(ContextComponent(ac, nr)) ],
          factors |->
              [ cvss_score           |-> cvss,
                epss_score           |-> epss,
                in_kev               |-> kev,
                asset_criticality    |-> ac,
                network_reachability |-> nr ] ]

(***************************************************************************)
(* The three source clients and RiskScorer.score_vulnerabilities.          *)
(***************************************************************************)
\* bounds of the model
MaxLen == 3
\* batch_size of get_epss_scores_bulk; 100 in the code, scaled to MaxLen so
\* that one call issues several batch requests
batch_size == 2
\* stop_after_attempt(3) of the @retry decorator
MAX_ATTEMPTS == 3

\* the CVE identifiers of the model
CveIds == {1, 2}

\* every list of at most n identifiers (duplicates allowed)
Lists(n) == UNION {[1..k -> CveIds] : k \in 0..n}

\* what NVD answers for a CVE: unknown, or data with a v3 score
\* (only the field the scorer reads is kept of _parse_cve_response's dict)
NvdAnswers == {None, Some([cvss_v3_score |-> Some(98)])}
\* what the EPSS API holds for a CVE: nothing, or a probability
EpssAnswers == {None, Some(94000)}
\* <<asset_criticality, network_reachability>> of a bulk request
RequestContexts == {<<10, 10>>, <<15, 15>>}
\* what the CISA feed can list when it is fetched
KevFeeds == {{1}, CveIds}

EmptyMap == [id \in {} |-> None]

\* epss_cache = TTLCache(maxsize=50000, ttl=86400), in seconds
EPSS_CACHE_TTL == 86400
\* settings.CVE_CACHE_TTL, the ttl of cve_cache (its default; the setting can
\* be overridden from the environment)
CVE_CACHE_TTL == 86400

\* a cache without expiry: an item stays for ever
LiveKeys_NeverExpire(expires) == DOMAIN expires

\* TTLCache: `key in cache` and `cache[key]` see an item until the clock
\* reaches its expiry time (maxsize is never reached with the identifiers of
\* the model, so nothing is evicted for size)
LiveKeys(expires) == {id \in DOMAIN expires : now < expires[id]}

\* TTLCache: `cache[key] = value` for every key of `new`: the expired items
\* are dropped first, the new ones expire ttl seconds from now
StoredValues(cache, expires, new) ==
    IF DOMAIN new = {} THEN cache
    ELSE [id \in LiveKeys(expires) \cup DOMAIN new |->
             IF id \in DOMAIN new THEN new[id] ELSE cache[id]]

StoredExpiry(expires, new, ttl) ==
    IF DOMAIN new = {} THEN expires
    ELSE [id \in LiveKeys(expires) \cup DOMAIN new |->
             IF id \in DOMAIN new THEN now + ttl ELSE expires[id]]

\* the dict get_epss_score / get_epss_scores_bulk build from a response item
EpssRecord(id) == [cve_id |-> id, epss_score |-> epss_feed[id][1]]

\* the entry refresh_catalog stores for a feed item
KevEntry(id) == [cve_id |-> id]

Range(s) == {s[i] : i \in 1..Len(s)}

\* sort ascending, then reverse the list: equal keys end in reverse order
InsertByRiskScore_Reversed(sorted, r) ==
    LET k == Cardinality({i \in 1..Len(sorted) :
                             sorted[i].risk_score > r.risk_score})
    IN  SubSeq(sorted, 1, k) \o <<r>> \o SubSeq(sorted, k + 1, Len(sorted))

\* a sort that keeps one result per identifier
InsertByRiskScore_OnePerCve(sorted, r) ==
    LET k == Cardinality({i \in 1..Len(sorted) :
                             sorted[i].risk_score >= r.risk_score})
    IN  IF \E i \in 1..Len(sorted) : sorted[i].cve_id = r.cve_id
        THEN sorted
        ELSE SubSeq(sorted, 1, k) \o <<r>> \o SubSeq(sorted, k + 1, Len(sorted))

\* results.sort(key=lambda x: x.get("risk_score", 0), reverse=True): list.sort
\* is stable, and with reverse=True equal keys keep their original order.
\* `sorted` is sorted already; r goes behind every element that is >= r.
InsertByRiskScore(sorted, r) ==
    LET k == Cardinality({i \in 1..Len(sorted) :
                             sorted[i].risk_score >= r.risk_score})
    IN  SubSeq(sorted, 1, k) \o <<r>> \o SubSeq(sorted, k + 1, Len(sorted))

RECURSIVE SortByRiskScore(_)
SortByRiskScore(s) ==
    IF s = <<>> THEN <<>>
    ELSE InsertByRiskScore(SortByRiskScore(SubSeq(s, 1, Len(s) - 1)), s[Len(s)])

\* the state of a call that has not started
CallIdle ==
    /\ pc = "idle"
    /\ cve_ids = <<>>
    /\ req_criticality = 10
    /\ req_reachability = 10
    /\ uncached_cves = <<>>
    /\ batch_start = 0
    /\ epss_scores = EmptyMap
    /\ idx = 0
    /\ attempts = 0
    /\ nvd_data = None
    /\ enriched_at = 0
    /\ results = <<>>
    /\ bulk_cached = {}
    /\ batch_log = <<>>
    /\ failed_cve = {}

\* module load: empty caches, empty catalog
ClientsInit ==
    /\ cve_cache = EmptyMap
    /\ cve_expires = EmptyMap
    /\ epss_cache = EmptyMap
    /\ epss_expires = EmptyMap
    /\ now = 0
    /\ kev_catalog = EmptyMap
    /\ kev_cve_set = {}
    /\ kev_last_updated = None
    \* no refresh_catalog is in progress
    /\ kev_pc = "idle"
    /\ kev_attempts = 0
    /\ kev_count = None
    /\ kev_before = None
    /\ kev_feed = None

\* the callers of the concurrent direct calls
MaxCallers == 2
Callers == 1..MaxCallers

\* the two single-identifier fetches
Ops == {"get_cve", "get_epss_score"}

\* a caller that has not called yet
IdleCaller == [pc |-> "idle", op |-> "none", cve_id |-> 0, attempts |-> 0,
               result |-> None]

CallersIdle ==
    /\ callers = [c \in Callers |-> IdleCaller]
    /\ requests_sent = [k \in Ops \X CveIds |-> 0]

\* severity_counts = {"critical": 0, "high": 0, "medium": 0, "low": 0}
Severities == {"critical", "high", "medium", "low"}
NoCounts == [s \in Severities |-> 0]

\* no create_scan request is in progress and the tables are empty
ScanIdle ==
    /\ scan_pc = "idle"
    /\ scan_outcome = "none"
    /\ scan_cve_ids = <<>>
    /\ scan_idx = 0
    /\ scan_attempts = 0
    /\ scan_nvd_data = None
    /\ severity_counts = NoCounts
    /\ db_scans = <<>>
    /\ db_vulns = EmptyMap
    /\ db_links = {}
    /\ session_links = {}

\* no direct call of _parse_cve_response is in progress
ParseIdle == vuln_data = None /\ parse_pc = "idle" /\ cve_data = None

Init ==
    /\ ClientsInit
    /\ ParseIdle
    /\ CallersIdle
    /\ ScanIdle
    /\ nvd_feed \in [CveIds -> NvdAnswers]
    /\ epss_feed \in [CveIds -> EpssAnswers]
    /\ CallIdle
    \* no direct call of calculate_risk_score in this specification
    /\ cvss_score = None /\ epss_score = None /\ in_kev = FALSE
    /\ asset_criticality = 10 /\ network_reachability = 10
    /\ score_pc = "none" /\ score_result = None

\* get_epss_scores_bulk has returned: the for loop of score_vulnerabilities
\* starts, or, on an empty list, the call sorts and returns at once
BulkReturned(ids) ==
    IF ids = <<>>
    THEN pc' = "done" /\ idx' = 0 /\ enriched_at' = 0
    \* enrich_vulnerability builds its result dict, then awaits get_cve
    ELSE pc' = "nvd" /\ idx' = 1 /\ enriched_at' = now

\* score_vulnerabilities is called; get_epss_scores_bulk runs up to its first
\* request: the cached identifiers go to results, the others to uncached_cves
StartCallWith(lists, contexts) ==
    /\ pc = "idle"
    /\ cve_ids' \in lists
    /\ \E context \in contexts :
           /\ req_criticality' = context[1]
           /\ req_reachability' = context[2]
    /\ LET cached == Range(cve_ids') \cap LiveKeys(epss_expires)
       IN  /\ epss_scores' = [id \in cached |-> epss_cache[id]]
           /\ bulk_cached' = cached
           /\ uncached_cves' =
                  SelectSeq(cve_ids', LAMBDA id : id \notin cached)
    /\ batch_start' = 0
    /\ IF uncached_cves' = <<>>
       THEN BulkReturned(cve_ids')
       ELSE pc' = "bulk" /\ idx' = 0 /\ enriched_at' = 0
    /\ attempts' = 0
    /\ nvd_data' = None
    /\ results' = <<>>
    /\ batch_log' = <<>>
    /\ failed_cve' = {}
    /\ UNCHANGED <<now, parseVars, callerVars, scanVars, scoreVars, refreshVars, clientVars, feedVars>>

StartCall == StartCallWith(Lists(MaxLen), RequestContexts)

\* batch = uncached_cves[i:i + batch_size]
Batch ==
    SubSeq(uncached_cves, batch_start + 1,
           Min(batch_start + batch_size, Len(uncached_cves)))

\* the bulk fetch returns after its first batch, whatever is left to request
NextBatch_ReturnsAfterFirst ==
    /\ batch_start' = batch_start + batch_size
    /\ BulkReturned(cve_ids)

\* the batch loop moves on to the next batch, or the bulk fetch returns
NextBatch ==
    /\ batch_start' = batch_start + batch_size
    /\ IF batch_start' >= Len(uncached_cves)
       THEN BulkReturned(cve_ids)
       ELSE pc' = "bulk" /\ idx' = idx /\ enriched_at' = enriched_at

\* a batch request succeeds: every item of the response is cached and added
\* to results
BulkBatchSucceeds ==
    /\ pc = "bulk"
    /\ LET returned == {id \in Range(Batch) : epss_feed[id] # None}
           new == [id \in returned |-> EpssRecord(id)]
       IN  /\ epss_cache' = StoredValues(epss_cache, epss_expires, new)
           /\ epss_expires' = StoredExpiry(epss_expires, new, EPSS_CACHE_TTL)
           /\ epss_scores' = [id \in DOMAIN epss_scores \cup returned |->
                                 IF id \in returned THEN EpssRecord(id)
                                 ELSE epss_scores[id]]
           /\ batch_log' = Append(batch_log,
                  [sent |-> Batch, ids |-> Range(Batch), ok |-> TRUE,
                   returned |-> returned])
    /\ NextBatch
    /\ UNCHANGED <<now, parseVars, callerVars, scanVars, scoreVars, refreshVars, feedVars, nvdCacheVars, kevVars, cve_ids, req_criticality, req_reachability,
                   uncached_cves, attempts, nvd_data, results,
                   bulk_cached, failed_cve>>

\* the call propagates the error instead of going on with the next batch
BulkBatchFails_Raises ==
    /\ pc = "bulk"
    /\ batch_log' = Append(batch_log,
           [sent |-> Batch, ids |-> Range(Batch), ok |-> FALSE,
            returned |-> {}])
    /\ pc' = "raised"
    /\ UNCHANGED <<now, parseVars, callerVars, scanVars, scoreVars, refreshVars, feedVars, clientVars, cve_ids, req_criticality,
                   req_reachability, uncached_cves, batch_start, epss_scores,
                   idx, attempts, nvd_data, enriched_at, results, bulk_cached,
                   failed_cve>>

\* the error handler throws away what earlier batches and the cache gave
BulkBatchFails_DropsResults ==
    /\ pc = "bulk"
    /\ batch_log' = Append(batch_log,
           [sent |-> Batch, ids |-> Range(Batch), ok |-> FALSE,
            returned |-> {}])
    /\ epss_scores' = EmptyMap
    /\ NextBatch
    /\ UNCHANGED <<now, parseVars, callerVars, scanVars, scoreVars, refreshVars, feedVars, clientVars, cve_ids, req_criticality,
                   req_reachability, uncached_cves, attempts, nvd_data,
                   results, bulk_cached, failed_cve>>

\* a batch request fails (network error, HTTP error status, bad payload):
\* except Exception logs it and the loop goes on
BulkBatchFails ==
    /\ pc = "bulk"
    /\ batch_log' = Append(batch_log,
           [sent |-> Batch, ids |-> Range(Batch), ok |-> FALSE,
            returned |-> {}])
    /\ NextBatch
    /\ UNCHANGED <<now, parseVars, callerVars, scanVars, scoreVars, refreshVars, feedVars, clientVars, cve_ids, req_criticality,
                   req_reachability, uncached_cves, epss_scores, attempts,
                   nvd_data, results, bulk_cached, failed_cve>>

\* the identifier the for loop is at
CurrentCve == cve_ids[idx]

\* get_cve: `if cve_id in cve_cache: return cve_cache[cve_id]`
GetCveCacheHit ==
    /\ pc = "nvd"
    /\ CurrentCve \in LiveKeys(cve_expires)
    /\ nvd_data' = Some(cve_cache[CurrentCve])
    /\ pc' = "epss"
    /\ UNCHANGED <<now, parseVars, callerVars, scanVars, scoreVars, refreshVars, feedVars, clientVars, cve_ids, req_criticality,
                   req_reachability, uncached_cves, batch_start, epss_scores,
                   idx, attempts, enriched_at, results, historyVars>>

\* get_cve raises when NVD does not know the CVE
GetCveFetched_RaisesOnUnknown ==
    /\ pc = "nvd"
    /\ CurrentCve \notin LiveKeys(cve_expires)
    /\ LET new == IF nvd_feed[CurrentCve] = None THEN EmptyMap
                  ELSE [id \in {CurrentCve} |-> nvd_feed[id][1]]
       IN  /\ cve_cache' = StoredValues(cve_cache, cve_expires, new)
           /\ cve_expires' = StoredExpiry(cve_expires, new, CVE_CACHE_TTL)
    /\ IF nvd_feed[CurrentCve] = None
       THEN pc' = "raised" /\ nvd_data' = None /\ results' = <<>>
       ELSE pc' = "epss" /\ nvd_data' = nvd_feed[CurrentCve]
                        /\ results' = results
    /\ UNCHANGED <<now, parseVars, callerVars, scanVars, scoreVars, refreshVars, feedVars, epssCacheVars,
                   kevVars, cve_ids, req_criticality, req_reachability,
                   uncached_cves, batch_start, epss_scores, idx, attempts,
                   enriched_at, historyVars>>

\* get_cve: the request succeeds; an unknown CVE returns None and caches
\* nothing, a known one is parsed, cached and returned
GetCveFetched ==
    /\ pc = "nvd"
    /\ CurrentCve \notin LiveKeys(cve_expires)
    /\ nvd_data' = nvd_feed[CurrentCve]
    /\ LET new == IF nvd_feed[CurrentCve] = None THEN EmptyMap
                  ELSE [id \in {CurrentCve} |-> nvd_feed[id][1]]
       IN  /\ cve_cache' = StoredValues(cve_cache, cve_expires, new)
           /\ cve_expires' = StoredExpiry(cve_expires, new, CVE_CACHE_TTL)
    /\ pc' = "epss"
    /\ UNCHANGED <<now, parseVars, callerVars, scanVars, scoreVars, refreshVars, feedVars, epssCacheVars, kevVars, cve_ids, req_criticality, req_reachability,
                   uncached_cves, batch_start, epss_scores, idx, attempts,
                   enriched_at,
                   results, historyVars>>

\* get_cve without @retry: the first failed request raises to the caller
GetCveFailed_NoRetry ==
    /\ pc = "nvd"
    /\ CurrentCve \notin LiveKeys(cve_expires)
    /\ attempts' = attempts + 1
    /\ pc' = "raised"
    /\ failed_cve' = failed_cve \cup {CurrentCve}
    /\ results' = <<>>
    /\ UNCHANGED <<now, parseVars, callerVars, scanVars, scoreVars, refreshVars, feedVars, clientVars, cve_ids,
                   req_criticality, req_reachability, uncached_cves,
                   batch_start, epss_scores, idx, nvd_data, enriched_at,
                   bulk_cached, batch_log>>

\* get_cve: the request fails and the handler re-raises; @retry calls get_cve
\* again, and after the third failed attempt raises to enrich_vulnerability,
\* which has no handler, and neither has score_vulnerabilities
GetCveFailed ==
    /\ pc = "nvd"
    /\ CurrentCve \notin LiveKeys(cve_expires)
    /\ attempts' = attempts + 1
    /\ IF attempts' = MAX_ATTEMPTS
       THEN /\ pc' = "raised"
            /\ failed_cve' = failed_cve \cup {CurrentCve}
            \* the caller gets the exception, not the results so far
            /\ results' = <<>>
       ELSE /\ pc' = "nvd"
            /\ failed_cve' = failed_cve
            /\ results' = results
    /\ UNCHANGED <<now, parseVars, callerVars, scanVars, scoreVars, refreshVars, feedVars, clientVars, cve_ids, req_criticality,
                   req_reachability, uncached_cves, batch_start, epss_scores,
                   idx, nvd_data, enriched_at, bulk_cached, batch_log>>

\* the rest of one loop iteration, from the return of get_epss_score on: the
\* KEV lookup, calculate_risk_score with the EPSS value of the bulk fetch, and
\* results.append; after the last identifier, the sort.  `pos` records the
\* place of the identifier in cve_ids (it is no key of the result dict).
FinishIteration(epss_data) ==
    LET cve_id == CurrentCve
        kev == cve_id \in kev_cve_set
        kev_details == IF kev /\ cve_id \in DOMAIN kev_catalog
                       THEN Some(kev_catalog[cve_id]) ELSE None
        cvss_v3_score == IF nvd_data = None THEN None
                         ELSE nvd_data[1].cvss_v3_score
        bulk_epss == IF cve_id \in DOMAIN epss_scores
                     THEN Some(epss_scores[cve_id].epss_score) ELSE None
        score == calculate_risk_score(cvss_v3_score, bulk_epss, kev,
                     req_criticality, req_reachability)
        result == [ cve_id        |-> cve_id,
                    enriched_at   |-> enriched_at,
                    cvss_v3_score |-> cvss_v3_score,
                    epss_score    |-> IF epss_data = None THEN None
                                      ELSE Some(epss_data[1].epss_score),
                    in_kev        |-> kev,
                    kev_details   |-> kev_details,
                    risk_score    |-> score.risk_score,
                    severity      |-> score.severity,
                    components    |-> score.components,
                    factors       |-> score.factors,
                    pos           |-> idx ]
    IN  /\ nvd_data' = None
        /\ attempts' = 0
        /\ IF idx = Len(cve_ids)
           THEN /\ results' = SortByRiskScore(Append(results, result))
                /\ pc' = "done"
                /\ idx' = idx
                /\ enriched_at' = 0
           ELSE /\ results' = Append(results, result)
                /\ pc' = "nvd"
                /\ idx' = idx + 1
                /\ enriched_at' = now

\* get_epss_score: `if cve_id in epss_cache: return epss_cache[cve_id]`
GetEpssCacheHit ==
    /\ pc = "epss"
    /\ CurrentCve \in LiveKeys(epss_expires)
    /\ FinishIteration(Some(epss_cache[CurrentCve]))
    /\ UNCHANGED <<now, parseVars, callerVars, scanVars, scoreVars, refreshVars, feedVars, clientVars, cve_ids, req_criticality,
                   req_reachability, uncached_cves, batch_start, epss_scores, historyVars>>

\* get_epss_score: the request succeeds; no data returns None, data is cached
\* and returned
GetEpssFetched ==
    /\ pc = "epss"
    /\ CurrentCve \notin LiveKeys(epss_expires)
    /\ LET new == IF epss_feed[CurrentCve] = None THEN EmptyMap
                  ELSE [id \in {CurrentCve} |-> EpssRecord(id)]
       IN  /\ epss_cache' = StoredValues(epss_cache, epss_expires, new)
           /\ epss_expires' = StoredExpiry(epss_expires, new, EPSS_CACHE_TTL)
    /\ IF epss_feed[CurrentCve] = None
       THEN FinishIteration(None)
       ELSE FinishIteration(Some(EpssRecord(CurrentCve)))
    /\ UNCHANGED <<now, parseVars, callerVars, scanVars, scoreVars, refreshVars, feedVars, nvdCacheVars, kevVars, cve_ids, req_criticality, req_reachability,
                   uncached_cves, batch_start, epss_scores, historyVars>>

\* get_epss_score: the request fails; except Exception logs and returns None
\* (so @retry never sees a failure)
GetEpssFailed ==
    /\ pc = "epss"
    /\ CurrentCve \notin LiveKeys(epss_expires)
    /\ FinishIteration(None)
    /\ UNCHANGED <<now, parseVars, callerVars, scanVars, scoreVars, refreshVars, feedVars, clientVars, cve_ids, req_criticality,
                   req_reachability, uncached_cves, batch_start, epss_scores, historyVars>>

\* the call has returned or raised: the caller takes the outcome
CallEnds ==
    /\ pc \in {"done", "raised"}
    /\ pc' = "idle"
    /\ cve_ids' = <<>>
    /\ req_criticality' = 10
    /\ req_reachability' = 10
    /\ uncached_cves' = <<>>
    /\ batch_start' = 0
    /\ epss_scores' = EmptyMap
    /\ idx' = 0
    /\ attempts' = 0
    /\ nvd_data' = None
    /\ enriched_at' = 0
    /\ results' = <<>>
    /\ bulk_cached' = {}
    /\ batch_log' = <<>>
    /\ failed_cve' = {}
    /\ UNCHANGED <<now, parseVars, callerVars, scanVars, scoreVars, refreshVars, feedVars, clientVars>>

\* refresh_catalog, from the arrival of the feed on (no await in between):
\* both globals are cleared and filled with the entries of the feed
RefreshCatalog ==
    /\ \E feed \in KevFeeds :
           /\ kev_catalog' = [id \in feed |-> KevEntry(id)]
           /\ kev_cve_set' = feed
    /\ kev_last_updated' = Some(now)
    /\ UNCHANGED <<now, parseVars, callerVars, scanVars, scoreVars, refreshVars, feedVars, nvdCacheVars, epssCacheVars, callVars,
                   historyVars>>

Next ==
    \/ StartCall
    \/ BulkBatchSucceeds
    \/ BulkBatchFails
    \/ GetCveCacheHit
    \/ GetCveFetched
    \/ GetCveFailed
    \/ GetEpssCacheHit
    \/ GetEpssFetched
    \/ GetEpssFailed
    \/ CallEnds
    \/ RefreshCatalog

Spec == Init /\ [][Next]_vars

(***************************************************************************)
(* The same pipeline with time passing.  In Spec the clock stands still    *)
(* (a behaviour of Spec lies within one TTL window and nothing expires);   *)
(* in SpecTime the clock advances in steps of half a TTL, at any point at  *)
(* which the call is suspended or between calls.                           *)
(***************************************************************************)
ClockStep == EPSS_CACHE_TTL \div 2
\* the clock stops after this many steps
MaxClockSteps == 3

Tick ==
    /\ now + ClockStep <= MaxClockSteps * ClockStep
    /\ now' = now + ClockStep
    /\ UNCHANGED <<parseVars, callerVars, scanVars, scoreVars, bulkVars,
                   refreshVars>>

\* upstream has data for every identifier, so that every fetch fills a cache
InitTime ==
    /\ Init
    /\ \A id \in CveIds : nvd_feed[id] # None /\ epss_feed[id] # None

\* the calls of SpecTime: lists of at most MaxLenTime identifiers, default
\* context; the KEV catalog stays as it is
MaxLenTime == 2

StartCallTime == StartCallWith(Lists(MaxLenTime), {<<10, 10>>})

NextTime ==
    \/ StartCallTime
    \/ BulkBatchSucceeds
    \/ BulkBatchFails
    \/ GetCveCacheHit
    \/ GetCveFetched
    \/ GetCveFailed
    \/ GetEpssCacheHit
    \/ GetEpssFetched
    \/ GetEpssFailed
    \/ CallEnds
    \/ Tick

SpecTime == InitTime /\ [][NextTime]_vars

(***************************************************************************)
(* The pipeline with an upstream that answers every request (with data or  *)
(* with none): no request fails.  The clock stands still.                  *)
(***************************************************************************)
NextAnswered ==
    \/ StartCallTime
    \/ BulkBatchSucceeds
    \/ GetCveCacheHit
    \/ GetCveFetched
    \/ GetEpssCacheHit
    \/ GetEpssFetched
    \/ CallEnds

SpecAnswered == Init /\ [][NextAnswered]_vars

(***************************************************************************)
(* refresh_catalog step by step, next to calls of score_vulnerabilities.   *)
(* The coroutines run on one event loop: a coroutine is suspended only at  *)
(* an await, so the code between two awaits is one action, and the states  *)
(* of the model are the points at which another coroutine (a reader of the *)
(* catalog) can run.  refresh_catalog awaits the response of the feed and  *)
(* the back-off sleep between two attempts; from the arrival of the        *)
(* response to the return or the raise there is no await.                  *)
(***************************************************************************)
\* the longest "vulnerabilities" list of a payload
MaxFeedLen == 2

\* an item of the list: a JSON object (ok) with or without a cveID, or a value
\* that is no object, on which vuln.get raises
KevItems ==
    {[ok |-> TRUE, cveID |-> Some(id)] : id \in CveIds}
        \cup {[ok |-> TRUE, cveID |-> None], [ok |-> FALSE, cveID |-> None]}

KevPayloads == UNION {[1..k -> KevItems] : k \in 0..MaxFeedLen}

\* the number of items the for loop gets through: all of them, or those
\* before the first item that makes vuln.get raise
ItemsRead(payload) ==
    IF \A i \in 1..Len(payload) : payload[i].ok THEN Len(payload)
    ELSE (CHOOSE i \in 1..Len(payload) :
             /\ ~payload[i].ok
             /\ \A j \in 1..(i - 1) : payload[j].ok) - 1

\* the loop raises before the end of the list
ParseFails(payload) == ItemsRead(payload) < Len(payload)

\* the identifiers stored by the loop: `if cve_id:` skips an item without one
IdsStored(payload) ==
    {payload[i].cveID[1] :
        i \in {j \in 1..ItemsRead(payload) : payload[j].cveID # None}}

\* the catalog is not cleared: the entries of the feed are merged into it
RefreshedCatalog_Merged(payload) ==
    [id \in DOMAIN kev_catalog \cup IdsStored(payload) |-> KevEntry(id)]

\* kev_catalog.clear() with no entry stored after it
RefreshedCatalog_LeftEmpty(payload) == EmptyMap

\* kev_catalog.clear() and the kev_catalog[cve_id] = {...} of the loop
RefreshedCatalog(payload) == [id \in IdsStored(payload) |-> KevEntry(id)]

\* the set is not cleared
RefreshedSet_NotCleared(payload) == kev_cve_set \cup IdsStored(payload)

\* kev_cve_set.clear() and the kev_cve_set.add(cve_id) of the loop
RefreshedSet(payload) == IdsStored(payload)

\* except Exception: log and raise; @retry starts the next attempt after the
\* back-off sleep, or gives up when this was attempt number 3
KevAttemptFailed ==
    /\ kev_attempts' = kev_attempts + 1
    /\ kev_pc' = IF kev_attempts' = MAX_ATTEMPTS THEN "raised" ELSE "fetching"
    /\ kev_count' = None

\* refresh_catalog is called
KevRefreshCalled ==
    /\ kev_pc = "idle"
    /\ kev_pc' = "fetching"
    /\ kev_attempts' = 0
    /\ kev_count' = None
    /\ kev_before' = Some(<<kev_catalog, kev_cve_set>>)
    /\ kev_feed' = None
    /\ UNCHANGED <<now, parseVars, callerVars, scanVars, scoreVars, bulkVars>>

\* the attempt fails before the globals are touched: the request fails,
\* raise_for_status raises, or the body is no JSON object
KevFetchFails ==
    /\ kev_pc = "fetching"
    /\ KevAttemptFailed
    /\ UNCHANGED <<now, parseVars, callerVars, scanVars, scoreVars, bulkVars, kev_before, kev_feed>>

\* the response arrives with a "vulnerabilities" list: both globals are
\* cleared and the loop stores its items; the call returns len(kev_catalog),
\* or an item makes the loop raise and the attempt fails
KevFeedArrives ==
    /\ kev_pc = "fetching"
    /\ \E payload \in KevPayloads :
           /\ kev_catalog' = RefreshedCatalog(payload)
           /\ kev_cve_set' = RefreshedSet(payload)
           /\ kev_feed' = Some(payload)
           /\ IF ParseFails(payload)
              THEN /\ KevAttemptFailed
                   /\ kev_last_updated' = kev_last_updated
              ELSE /\ kev_pc' = "returned"
                   /\ kev_count' = Some(Cardinality(DOMAIN kev_catalog'))
                   /\ kev_last_updated' = Some(now)
                   /\ kev_attempts' = kev_attempts
    /\ UNCHANGED <<now, parseVars, callerVars, scanVars, scoreVars, feedVars, nvdCacheVars, epssCacheVars,
                   callVars, historyVars, kev_before>>

\* the caller has taken the return value or the exception
KevCallEnds ==
    /\ kev_pc \in {"returned", "raised"}
    /\ kev_pc' = "idle"
    /\ kev_attempts' = 0
    /\ kev_count' = None
    /\ kev_before' = None
    /\ kev_feed' = None
    /\ UNCHANGED <<now, parseVars, callerVars, scanVars, scoreVars, bulkVars>>

\* the calls of score_vulnerabilities that run next to the refresh: at most
\* one identifier, default context
StartCallOne == StartCallWith(Lists(1), {<<10, 10>>})

\* NVD knows the first identifier only and EPSS holds no data (epss_cache
\* stays empty, get_epss_score never hits it)
InitKev ==
    /\ Init
    /\ \A id \in CveIds : (nvd_feed[id] # None) <=> (id = 1)
    /\ \A id \in CveIds : epss_feed[id] = None

NextKev ==
    \/ KevRefreshCalled
    \/ KevFetchFails
    \/ KevFeedArrives
    \/ KevCallEnds
    \/ StartCallOne
    \/ BulkBatchSucceeds
    \/ BulkBatchFails
    \/ GetCveCacheHit
    \/ GetCveFetched
    \/ GetCveFailed
    \/ GetEpssFetched
    \/ GetEpssFailed
    \/ CallEnds

SpecKev == InitKev /\ [][NextKev]_vars

(***************************************************************************)
(* Arguments of a direct call of calculate_risk_score.                     *)
(***************************************************************************)
CvssValues == {0, 1, 10, 40, 50, 75, 98, 100}
EpssValues == {0, 1, 5000, 10000, 50000, 85710, 94000, 100000}
\* documented range of asset_criticality and network_reachability: 0.5 - 1.5;
\* BulkScoreRequest declares both as plain floats, so any value gets through
DocumentedContext == 5..15
ContextValues == {5, 10, 15} \cup {-200, 0, 200}

Optional(S) == {None} \cup {Some(v) : v \in S}

InitScore ==
    /\ cvss_score \in Optional(CvssValues)
    /\ epss_score \in Optional(EpssValues)
    /\ in_kev \in BOOLEAN
    /\ asset_criticality \in ContextValues
    /\ network_reachability \in ContextValues
    /\ score_pc = "call"
    /\ score_result = None
    \* the clients are idle in this specification
    /\ ClientsInit
    /\ ParseIdle
    /\ CallersIdle
    /\ ScanIdle
    /\ nvd_feed = [id \in CveIds |-> None]
    /\ epss_feed = [id \in CveIds |-> None]
    /\ CallIdle

CalculateRiskScore ==
    /\ score_pc = "call"
    /\ score_result' = Some(calculate_risk_score(cvss_score, epss_score, in_kev,
                                asset_criticality, network_reachability))
    /\ score_pc' = "returned"
    /\ UNCHANGED <<cvss_score, epss_score, in_kev, asset_criticality,
                   network_reachability, bulkVars, refreshVars, now,
                   parseVars, callerVars, scanVars>>

NextScore == CalculateRiskScore

SpecScore == InitScore /\ [][NextScore]_vars

InDocumentedRange ==
    /\ asset_criticality \in DocumentedContext
    /\ network_reachability \in DocumentedContext

Returned == score_pc = "returned"

\* the returned dict, once calculate_risk_score has returned
Result == score_result[1]

\* cvss_score in [0, 10] and epss_score in [0, 1], or missing
ValidSignals ==
    /\ cvss_score = None \/ cvss_score[1] \in 0..100
    /\ epss_score = None \/ epss_score[1] \in 0..100000

(***************************************************************************)
(* C1: whatever the five arguments, the returned risk_score lies in        *)
(* [0, 100].                                                               *)
(***************************************************************************)
C1_RiskScoreInRange ==
    Returned => Result.risk_score >= 0 /\ Result.risk_score <= SCORE_CAP * 100

(***************************************************************************)
(* C2: the reported severity is the tier of the reported (two-decimal)     *)
(* risk_score: critical iff >= 70, high iff in [40, 70), medium iff in     *)
(* [20, 40), low iff < 20.                                                 *)
(***************************************************************************)
TierOf(risk_score) ==
    IF risk_score >= CRITICAL_THRESHOLD * 100 THEN "critical"
    ELSE IF risk_score >= HIGH_THRESHOLD * 100 THEN "high"
    ELSE IF risk_score >= MEDIUM_THRESHOLD * 100 THEN "medium"
    ELSE "low"

C2_SeverityIsTierOfRiskScore ==
    Returned => Result.severity = TierOf(Result.risk_score)

(***************************************************************************)
(* C3: with the other arguments fixed, a cvss_score a <= b in [0, 10]      *)
(* (a = 0 included) never gives a greater risk_score than b.               *)
(***************************************************************************)
C3_MonotoneInCvss ==
    (Returned /\ cvss_score # None /\ InDocumentedRange) =>
        \A b \in CvssValues :
            cvss_score[1] <= b =>
                Result.risk_score <=
                    calculate_risk_score(Some(b), epss_score, in_kev,
                        asset_criticality, network_reachability).risk_score

(***************************************************************************)
(* C4: with the other arguments fixed, an epss_score p <= q in [0, 1]      *)
(* (p = 0 included) never gives a greater risk_score than q.               *)
(***************************************************************************)
C4_MonotoneInEpss ==
    (Returned /\ epss_score # None /\ InDocumentedRange) =>
        \A q \in EpssValues :
            epss_score[1] <= q =>
                Result.risk_score <=
                    calculate_risk_score(cvss_score, Some(q), in_kev,
                        asset_criticality, network_reachability).risk_score

(***************************************************************************)
(* C5: for arguments in the documented ranges, the risk_score returned     *)
(* with in_kev = true is strictly greater than the one returned for the    *)
(* same arguments with in_kev = false, unless it is clamped at 100.        *)
(***************************************************************************)
WithoutKev ==
    calculate_risk_score(cvss_score, epss_score, FALSE,
        asset_criticality, network_reachability)

C5_KevStrictlyIncreases ==
    (Returned /\ in_kev /\ ValidSignals /\ InDocumentedRange) =>
        \/ Result.risk_score > WithoutKev.risk_score
        \/ Result.risk_score = SCORE_CAP * 100

\* a call with in_kev = true whose score is not clamped
C5_Witness ==
    /\ Returned /\ in_kev /\ ValidSignals /\ InDocumentedRange
    /\ Result.risk_score < SCORE_CAP * 100
    /\ Result.risk_score > WithoutKev.risk_score

(***************************************************************************)
(* C6: severity component = (cvss/10)*30 with cvss = 5.0 when missing;     *)
(* exploit component = probability*35 with probability = 0.1 when missing; *)
(* catalog component = 25 if in_kev else 0; context component =            *)
(* ((asset_criticality+network_reachability)/2)*10; the score is their     *)
(* sum, multiplied by 1.5 and capped at 100 only when in_kev.              *)
(* (9.8, 0.94, true, 1.5, 1.5) gives 100 / critical and                    *)
(* (None, None, false, 1.0, 1.0) gives 28.5 / medium.                      *)
(***************************************************************************)
WhenMissing(x, d) == IF x = None THEN d ELSE x[1]

StatedComponents(cvss, epss, kev, ac, nr) ==
    [ cvss_component    |-> WhenMissing(cvss, 50) * 300000,
      epss_component    |-> WhenMissing(epss, 10000) * 350,
      kev_component     |-> IF kev THEN 25 * Point ELSE 0,
      context_component |-> (ac + nr) * 500000 ]

StatedScore(cvss, epss, kev, ac, nr) ==
    LET c == StatedComponents(cvss, epss, kev, ac, nr)
        sum == c.cvss_component + c.epss_component + c.kev_component
                   + c.context_component
    IN  IF kev THEN Min(sum + sum \div 2, 100 * Point) ELSE sum

C6_ScoreFormula ==
    (Returned /\ ValidSignals /\ InDocumentedRange) =>
        LET c == StatedComponents(cvss_score, epss_score, in_kev,
                     asset_criticality, network_reachability)
        IN  /\ Result.components.cvss_component = Round2(c.cvss_component)
            /\ Result.components.epss_component = Round2(c.epss_component)
            /\ Result.components.kev_component = Round2(c.kev_component)
            /\ Result.components.context_component = Round2(c.context_component)
            /\ Result.risk_score =
                   Round2(StatedScore(cvss_score, epss_score, in_kev,
                       asset_criticality, network_reachability))

\* the two worked examples of C6, which the code does reproduce
C6_Examples ==
    /\ calculate_risk_score(Some(98), Some(94000), TRUE, 15, 15).risk_score = 10000
    /\ calculate_risk_score(Some(98), Some(94000), TRUE, 15, 15).severity = "critical"
    /\ calculate_risk_score(None, None, FALSE, 10, 10).risk_score = 2850
    /\ calculate_risk_score(None, None, FALSE, 10, 10).severity = "medium"

(***************************************************************************)
(* Claims about score_vulnerabilities and get_epss_scores_bulk             *)
(* (specification Spec).                                                   *)
(***************************************************************************)
Positions == 1..Len(results)

(***************************************************************************)
(* C7: the returned list is ordered by risk_score non-increasing, and      *)
(* results with equal risk_score keep the relative order their identifiers *)
(* had in the input list.                                                  *)
(***************************************************************************)
C7_SortedDescendingStable ==
    pc = "done" =>
        \A i, j \in Positions :
            i < j =>
                /\ results[i].risk_score >= results[j].risk_score
                /\ results[i].risk_score = results[j].risk_score
                       => results[i].pos < results[j].pos

\* a returned list with a tie between two different identifiers, and with a
\* pair the sort has moved
C7_Witness ==
    /\ pc = "done"
    /\ \E i, j \in Positions :
           /\ i < j
           /\ results[i].risk_score = results[j].risk_score
           /\ results[i].cve_id # results[j].cve_id
    /\ \E i, j \in Positions :
           /\ i < j
           /\ results[i].pos > results[j].pos

(***************************************************************************)
(* C8: when the enrichment of one identifier fails (its get_cve exhausts   *)
(* its retries), the call still returns scored results for every other     *)
(* identifier of the input list.                                           *)
(***************************************************************************)
C8_FailureOfOneIsIsolated ==
    (pc \in {"done", "raised"} /\ failed_cve # {}) =>
        \A i \in 1..Len(cve_ids) :
            cve_ids[i] \notin failed_cve =>
                \E k \in Positions : results[k].pos = i

(***************************************************************************)
(* C9: when a batch request of get_epss_scores_bulk fails, the call does   *)
(* not raise, the remaining batches are still requested, and the returned  *)
(* mapping holds every already-cached identifier and every identifier      *)
(* returned by a batch that succeeded.                                     *)
(***************************************************************************)
NumBatches == (Len(uncached_cves) + batch_size - 1) \div batch_size

\* get_epss_scores_bulk has returned its mapping to score_vulnerabilities
BulkHasReturned == pc \in {"nvd", "epss", "done"}

C9_FailedBatchIsSkipped ==
    /\ pc = "raised" => failed_cve # {}
    /\ BulkHasReturned =>
           /\ Len(batch_log) = NumBatches
           /\ \A id \in bulk_cached :
                  id \in DOMAIN epss_scores /\ epss_scores[id] = epss_cache[id]
           /\ \A k \in 1..Len(batch_log) :
                  batch_log[k].ok =>
                      \A id \in batch_log[k].returned :
                          /\ id \in DOMAIN epss_scores
                          /\ epss_scores[id] = EpssRecord(id)

\* the bulk fetch has returned after a failed batch followed by a batch that
\* returned data
C9_Witness ==
    /\ BulkHasReturned
    /\ \E k, l \in 1..Len(batch_log) :
           /\ k < l
           /\ ~batch_log[k].ok
           /\ batch_log[l].ok
           /\ batch_log[l].returned # {}
           /\ batch_log[l].returned \subseteq DOMAIN epss_scores

\* the bulk fetch has returned after a failed batch, with an identifier taken
\* from the cache
C9_WitnessCached ==
    /\ BulkHasReturned
    /\ bulk_cached # {}
    /\ \E k \in 1..Len(batch_log) : ~batch_log[k].ok

(***************************************************************************)
(* C10: an identifier whose exploit-probability batch fetch failed still   *)
(* receives a result, scored with the default exploit probability 0.1, and *)
(* the other identifiers of the call get the results they get when no      *)
(* batch fails (the EPSS value and the v3 score the upstreams hold).       *)
(***************************************************************************)
\* the identifier was not cached and every batch that carried it failed
BatchFetchFailed(id) ==
    /\ id \notin bulk_cached
    /\ \A k \in 1..Len(batch_log) :
           id \in batch_log[k].ids => ~batch_log[k].ok

\* the v3 score NVD holds for the identifier
UpstreamCvss(id) ==
    IF nvd_feed[id] = None THEN None ELSE nvd_feed[id][1].cvss_v3_score

RiskScoreWith(r, epss) ==
    calculate_risk_score(UpstreamCvss(r.cve_id), epss, r.in_kev,
        req_criticality, req_reachability).risk_score

FetchedBefore ==
    /\ pc \in {"nvd", "epss"}
    /\ \E k \in 1..(idx - 1) : cve_ids[k] = cve_ids[idx]

C11_SecondFetchIssuesNoRequest ==
    [][FetchedBefore => ~(GetCveFetched \/ GetEpssFetched)]_vars

(***************************************************************************)
(* C12: a value stored in cve_cache or epss_cache is never returned by     *)
(* get_cve, get_epss_score or get_epss_scores_bulk once its TTL (86400 s   *)
(* from insertion) has elapsed: a lookup made after expiry behaves as a    *)
(* miss and issues a network request.                                      *)
(***************************************************************************)
\* seconds since the item was stored
ItemAge(expires, id, ttl) == now - (expires[id] - ttl)

\* the cache object still holds an item for id, stored ttl seconds ago or more
HasExpired(expires, id, ttl) ==
    id \in DOMAIN expires /\ ItemAge(expires, id, ttl) >= ttl

C12_ExpiredItemIsNeverServed ==
    [][ \* a value served from a cache is younger than the TTL
        /\ GetCveCacheHit =>
               ItemAge(cve_expires, CurrentCve, CVE_CACHE_TTL) < CVE_CACHE_TTL
        /\ GetEpssCacheHit =>
               ItemAge(epss_expires, CurrentCve, EPSS_CACHE_TTL) < EPSS_CACHE_TTL
        /\ StartCallTime =>
               \A id \in DOMAIN epss_scores' :
                   ItemAge(epss_expires, id, EPSS_CACHE_TTL) < EPSS_CACHE_TTL
        \* a lookup of an expired item goes to the network
        /\ (/\ pc = "nvd"
            /\ HasExpired(cve_expires, CurrentCve, CVE_CACHE_TTL)
            /\ callVars' # callVars) => (GetCveFetched \/ GetCveFailed)
        /\ (/\ pc = "epss"
            /\ HasExpired(epss_expires, CurrentCve, EPSS_CACHE_TTL)
            /\ callVars' # callVars) => (GetEpssFetched \/ GetEpssFailed)
        /\ StartCallTime =>
               \A id \in Range(cve_ids') :
                   HasExpired(epss_expires, id, EPSS_CACHE_TTL) =>
                       id \in Range(uncached_cves')
      ]_vars

\* get_cve is about to look up an identifier whose cve_cache item has
\* expired, after the bulk fetch has met the expired epss_cache item of the
\* same identifier and has fetched it again
C12_Witness ==
    /\ pc = "nvd"
    /\ HasExpired(cve_expires, CurrentCve, CVE_CACHE_TTL)
    /\ CurrentCve \in Range(uncached_cves)
    /\ \E k \in 1..Len(batch_log) :
           batch_log[k].ok /\ CurrentCve \in batch_log[k].returned
    /\ epss_expires[CurrentCve] = now + EPSS_CACHE_TTL
    /\ now >= EPSS_CACHE_TTL

(***************************************************************************)
(* C13: at every point at which a reader (is_in_kev, get_kev_details,      *)
(* get_catalog_stats) can run, the points between the steps of a           *)
(* refresh_catalog in progress included, the key set of kev_catalog equals *)
(* kev_cve_set.  The states of SpecKev are those points.                   *)
(***************************************************************************)
C13_CatalogKeysEqualSet == DOMAIN kev_catalog = kev_cve_set

\* enrich_vulnerability is about to read the catalog while a refresh is
\* between two attempts, the failed one having stored a part of its feed
C13_Witness ==
    /\ pc = "epss"
    /\ kev_pc = "fetching"
    /\ kev_attempts > 0
    /\ kev_feed # None
    /\ ParseFails(kev_feed[1])
    /\ kev_cve_set # {}
    /\ <<kev_catalog, kev_cve_set>> # kev_before[1]

(***************************************************************************)
(* C14: whenever refresh_catalog fails (it raises to its caller after its  *)
(* retries, for any reason: a fetch error, an HTTP error status, or a      *)
(* payload that cannot be parsed), kev_catalog and kev_cve_set hold        *)
(* exactly the contents they had before the call: they are never left      *)
(* empty or partly overwritten.                                            *)
(***************************************************************************)
C14_FailedRefreshKeepsCatalog ==
    kev_pc = "raised" => <<kev_catalog, kev_cve_set>> = kev_before[1]

(***************************************************************************)
(* C15: a reader that runs concurrently with refresh_catalog observes      *)
(* either the complete previous catalog or the complete new catalog, never *)
(* an empty or partly filled catalog and never a mix of the two.           *)
(***************************************************************************)
\* the identifiers of every item of the payload that carries a cveID
IdsOfFeed(payload) ==
    {payload[i].cveID[1] :
        i \in {j \in 1..Len(payload) : payload[j].cveID # None}}

\* the catalog that holds the whole payload
CompleteCatalog(payload) ==
    <<[id \in IdsOfFeed(payload) |-> KevEntry(id)], IdsOfFeed(payload)>>

C15_ReaderSeesOldOrNewCatalog ==
    kev_pc \in {"fetching", "returned", "raised"} =>
        \/ <<kev_catalog, kev_cve_set>> = kev_before[1]
        \/ /\ kev_feed # None
           /\ <<kev_catalog, kev_cve_set>> = CompleteCatalog(kev_feed[1])

(***************************************************************************)
(* C16: after a successful refresh_catalog, kev_catalog contains exactly   *)
(* the entries of the fetched feed that carry a cveID (entries of the      *)
(* previous catalog that are absent from the new feed are gone), and the   *)
(* returned count equals the number of entries in the catalog.             *)
(***************************************************************************)
C16_CatalogIsExactlyTheFeed ==
    kev_pc = "returned" =>
        /\ DOMAIN kev_catalog = IdsOfFeed(kev_feed[1])
        /\ \A id \in DOMAIN kev_catalog : kev_catalog[id] = KevEntry(id)
        /\ kev_count = Some(Cardinality(IdsOfFeed(kev_feed[1])))

\* a refresh has returned; its feed had an item without cveID and an
\* identifier twice, and it lacked an identifier of the previous catalog
C16_Witness ==
    /\ kev_pc = "returned"
    /\ \E i \in 1..Len(kev_feed[1]) : kev_feed[1][i].cveID = None
    /\ \E id \in DOMAIN kev_before[1][1] : id \notin DOMAIN kev_catalog
    /\ kev_catalog # EmptyMap

\* as C16_Witness, for a feed that lists one identifier twice
C16_WitnessDuplicate ==
    /\ kev_pc = "returned"
    /\ \E i, j \in 1..Len(kev_feed[1]) :
           i < j /\ kev_feed[1][i] = kev_feed[1][j] /\ kev_feed[1][i].cveID # None
    /\ kev_count = Some(1)

(***************************************************************************)
(* C17: one call of NVDClient.get_cve or of KEVClient.refresh_catalog      *)
(* makes at most 3 network attempts: it returns at the first attempt that  *)
(* succeeds, retries after a failed attempt while fewer than 3 attempts    *)
(* were made, and after 3 failed attempts raises to its caller instead of  *)
(* returning a value.                                                      *)
(* `attempts` and `kev_attempts` count the failed attempts of the call in  *)
(* progress; every attempt is one request.                                 *)
(***************************************************************************)
\* an attempt of refresh_catalog ends: every step the call takes from
\* "fetching" is the end of one attempt (KevFetchFails or KevFeedArrives)
KevAttemptEnds ==
    kev_pc = "fetching" /\ <<kev_pc, kev_attempts>>' # <<kev_pc, kev_attempts>>

\* the attempt has failed, before or after the response
KevAttemptFails == KevAttemptEnds /\ kev_attempts' = kev_attempts + 1

C17_AtMostThreeAttempts ==
    [][ \* an attempt is made only after fewer than 3 failed ones
        /\ (GetCveFetched \/ GetCveFailed) => attempts < 3
        /\ KevAttemptEnds => kev_attempts < 3
        \* the call returns at the first attempt that succeeds
        /\ GetCveFetched => (pc' = "epss" /\ nvd_data' = nvd_feed[CurrentCve])
        /\ (KevAttemptEnds /\ ~KevAttemptFails) =>
               /\ kev_pc' = "returned"
               /\ kev_count' # None
               /\ kev_attempts' = kev_attempts
        \* after a failed attempt: the next attempt, or after the third the
        \* exception
        /\ GetCveFailed =>
               IF attempts' < 3
               THEN pc' = "nvd"
               ELSE pc' = "raised" /\ nvd_data' = None /\ results' = <<>>
        /\ KevAttemptFails =>
               IF kev_attempts' < 3
               THEN kev_pc' = "fetching"
               ELSE kev_pc' = "raised" /\ kev_count' = None
      ]_vars

\* both calls have raised after three failed attempts
C17_Witness ==
    /\ pc = "raised" /\ attempts = 3
    /\ kev_pc = "raised" /\ kev_attempts = 3

\* both calls have returned at their third attempt
C17_WitnessThirdAttempt ==
    /\ pc = "epss" /\ attempts = 2 /\ nvd_data # None
    /\ kev_pc = "returned" /\ kev_attempts = 2

(***************************************************************************)
(* C18: EPSSClient.get_epss_score follows the retry pattern of get_cve: a  *)
(* failed network attempt is retried up to 3 attempts, and when every      *)
(* attempt fails the failure propagates to the caller as an error,         *)
(* distinct from the 'absent' result returned when the upstream has no     *)
(* data.  So a failed request of get_epss_score is followed by another     *)
(* attempt of the same call or by an exception at the caller, never by a   *)
(* returned value with which the caller goes on.                           *)
(***************************************************************************)
C18_EpssFailureIsRetriedOrRaised ==
    [][GetEpssFailed =>
           \/ pc' = "epss" /\ idx' = idx /\ results' = results
           \/ pc' = "raised"]_vars

(***************************************************************************)
(* C19: enrich_vulnerability returns a result, with cve_id, enriched_at    *)
(* and in_kev set, for every combination of 'no data' answers of the       *)
(* sources (severity record absent, exploit-probability record absent,     *)
(* identifier not in the catalog, or any subset of these): absence of data *)
(* alone never makes it raise.  Every iteration the loop has gone through  *)
(* has appended its result, and the call raises only after a get_cve whose *)
(* three requests failed.                                                  *)
(***************************************************************************)
C19_EnrichReturnsWithoutData ==
    /\ pc = "raised" => failed_cve # {}
    /\ pc \in {"nvd", "epss"} => Len(results) = idx - 1
    /\ pc = "done" => Len(results) = Len(cve_ids)
    /\ \A k \in 1..Len(results) :
           /\ results[k].pos \in 1..Len(cve_ids)
           /\ results[k].cve_id = cve_ids[results[k].pos]
           /\ results[k].enriched_at \in 0..now
           /\ results[k].in_kev \in BOOLEAN
           /\ \A l \in 1..Len(results) :
                  results[l].pos = results[k].pos => l = k

\* a returned list with a result for an identifier that no source has data
\* for, and a result for one that only the catalog knows
C19_Witness ==
    /\ pc = "done"
    /\ \E k, l \in 1..Len(results) :
           /\ nvd_feed[results[k].cve_id] = None
           /\ epss_feed[results[k].cve_id] = None
           /\ results[k].cvss_v3_score = None
           /\ results[k].epss_score = None
           /\ ~results[k].in_kev
           /\ results[k].kev_details = None
           /\ nvd_feed[results[l].cve_id] = None
           /\ epss_feed[results[l].cve_id] = None
           /\ results[l].in_kev

(***************************************************************************)
(* C20: get_epss_scores_bulk sends network requests only for the           *)
(* identifiers of its input that are not in epss_cache: every such         *)
(* identifier is sent in exactly one request, no request carries more than *)
(* 100 identifiers (batch_size, scaled down in the model), no cached       *)
(* identifier is sent, and when every input identifier is cached (or the   *)
(* input is empty) no request is made at all.                              *)
(***************************************************************************)
\* the requests of the call that carry the identifier
RequestsCarrying(id) == {k \in 1..Len(batch_log) : id \in Range(batch_log[k].sent)}

C20_UncachedSentExactlyOnce ==
    LET uncached == Range(cve_ids) \ bulk_cached
    IN  /\ \A k \in 1..Len(batch_log) :
               /\ Len(batch_log[k].sent) <= batch_size
               /\ Range(batch_log[k].sent) \subseteq uncached
        /\ uncached = {} => batch_log = <<>>
        /\ BulkHasReturned =>
               \A id \in uncached : Cardinality(RequestsCarrying(id)) = 1

(***************************************************************************)
(* C21: in one score_vulnerabilities call, exploit-probability data is     *)
(* obtained through the single bulk pre-fetch: the per-identifier          *)
(* enrichment that follows issues no single-identifier exploit-probability *)
(* network request, for every outcome of the pre-fetch (data returned, no  *)
(* data for an identifier, batch failed).  GetEpssFetched and              *)
(* GetEpssFailed are the steps in which get_epss_score, called by          *)
(* enrich_vulnerability, has sent a request.                               *)
(***************************************************************************)
C21_NoSingleEpssRequest == [][~(GetEpssFetched \/ GetEpssFailed)]_vars

(***************************************************************************)
(* C22: the result of calculate_risk_score reports the four component      *)
(* values as computed before the 1.5 multiplier is applied, and its        *)
(* factors echo the five inputs exactly as passed (a missing cvss_score or *)
(* epss_score is echoed as missing, not as its default), for in_kev true   *)
(* and false alike.  The components are stated here from the arguments of  *)
(* the call, in hundredths of a point.                                     *)
(***************************************************************************)
ComponentsBeforeMultiplier ==
    [ cvss_component    |->
          30 * (IF cvss_score \in {None, Some(0)} THEN 50 ELSE cvss_score[1]),
      epss_component    |->
          Round2(350 * (IF epss_score \in {None, Some(0)} THEN 10000
                        ELSE epss_score[1])),
      kev_component     |-> IF in_kev THEN 2500 ELSE 0,
      context_component |->
          Round2(500000 * (asset_criticality + network_reachability)) ]

FactorsAsPassed ==
    [ cvss_score           |-> cvss_score,
      epss_score           |-> epss_score,
      in_kev               |-> in_kev,
      asset_criticality    |-> asset_criticality,
      network_reachability |-> network_reachability ]

C22_ComponentsAndFactorsReported ==
    Returned => /\ Result.components = ComponentsBeforeMultiplier
                /\ Result.factors = FactorsAsPassed

\* a call with both signals missing and the multiplier applied
C22_Witness ==
    /\ Returned
    /\ in_kev
    /\ cvss_score = None
    /\ epss_score = None
    /\ Result.components.cvss_component = 1500
    /\ Result.factors.cvss_score = None

(***************************************************************************)
(* C23: in score_vulnerabilities the bulk exploit-probability pre-fetch    *)
(* has returned (succeeded or been attempted and failed) before the first  *)
(* per-identifier enrichment or scoring step starts; no per-identifier     *)
(* step reads exploit-probability data while the pre-fetch is still        *)
(* running.  While the pre-fetch runs the loop has not started, and every  *)
(* step taken inside the loop finds all batches requested and leaves the   *)
(* mapping of the pre-fetch as it is.                                      *)
(***************************************************************************)
InEnrichLoop == pc \in {"nvd", "epss"}

PrefetchRunning == pc = "bulk"

C23_PrefetchReturnsBeforeLoop ==
    [][/\ PrefetchRunning => idx = 0 /\ results = <<>> /\ nvd_data = None
       /\ InEnrichLoop =>
              /\ Len(batch_log) = NumBatches
              /\ batch_start >= Len(uncached_cves)
              /\ batch_log' = batch_log
              /\ epss_scores' = epss_scores]_vars

\* the loop is at its second identifier after a pre-fetch of two batches, the
\* first of which failed
C23_Witness ==
    /\ InEnrichLoop
    /\ idx = 2
    /\ Len(batch_log) = 2
    /\ ~batch_log[1].ok
    /\ Len(results) = 1

(***************************************************************************)
(* NVDClient._parse_cve_response, called directly on one item of an NVD    *)
(* response.  The item is cut down to its "metrics" and "references": the  *)
(* fields copied from "id", "published", "lastModified", "weaknesses" and  *)
(* "descriptions" take no part in the choice of the scores.  A key of the  *)
(* metrics dict is either absent (None) or holds a list of metric entries  *)
(* (Some(list)), each with its cvssData; a reference holds a url or none.  *)
(***************************************************************************)

\* a cvssData object; NoCvssData lacks both keys
CvssData(score) == [baseScore |-> Some(score), vectorString |-> Some(score)]
NoCvssData == [baseScore |-> None, vectorString |-> None]

\* what a metrics key may hold: lists whose first entry differs from the second
MetricLists(score) ==
    { None, Some(<<>>), Some(<<NoCvssData>>), Some(<<CvssData(score)>>),
      Some(<<CvssData(score), CvssData(score + 1)>>),
      Some(<<CvssData(score + 1), CvssData(score)>>),
      Some(<<NoCvssData, CvssData(score)>>) }

\* metrics[key][0]["cvssData"]
First(list) == list[1][1]

MaxRefs == 12

\* reference lists of every length up to MaxRefs, the k-th url being k, with at
\* most one reference that has no url
RefLists ==
    { [k \in 1..n |-> IF k = m THEN None ELSE Some(k)] :
          n \in 0..MaxRefs, m \in 0..2 }

VulnData ==
    [ cvssMetricV31 : MetricLists(90),
      cvssMetricV30 : MetricLists(70),
      cvssMetricV2  : MetricLists(50),
      references    : RefLists ]

\* the literal of references[:10]
REFERENCE_LIMIT == 10

\* the cvssData the v3 score is read from, if any: the if / elif on
\* "cvssMetricV31" and "cvssMetricV30", taking entry [0] of the list
V3Metric(v) ==
    IF v.cvssMetricV31 # None THEN Some(First(v.cvssMetricV31))
    ELSE IF v.cvssMetricV30 # None THEN Some(First(v.cvssMetricV30))
    ELSE None

\* [0] on an empty list raises IndexError; only the lists that are indexed count
ParseRaises(v) ==
    \/ v.cvssMetricV31 = Some(<<>>)
    \/ v.cvssMetricV31 = None /\ v.cvssMetricV30 = Some(<<>>)
    \/ v.cvssMetricV2 = Some(<<>>)

\* [ref.get("url") for ref in references if ref.get("url")]
Urls(references) ==
    LET kept == SelectSeq(references, LAMBDA ref : ref # None)
    IN  [k \in 1..Len(kept) |-> kept[k][1]]

\* the whole list, however long
Limited_KeepsAll(urls) == urls

\* references[:10]
Limited(urls) == SubSeq(urls, 1, Min(Len(urls), REFERENCE_LIMIT))

\* the returned dict
_parse_cve_response(v) ==
    LET cvss_data == V3Metric(v)
        urls == Urls(v.references)
    IN  [ cvss_v3_score  |-> IF cvss_data = None THEN None
                             ELSE cvss_data[1].baseScore,
          cvss_v3_vector |-> IF cvss_data = None THEN None
                             ELSE cvss_data[1].vectorString,
          cvss_v2_score  |-> IF v.cvssMetricV2 = None THEN None
                             ELSE First(v.cvssMetricV2).baseScore,
          references     |-> Limited(urls) ]

InitParse ==
    /\ vuln_data \in {Some(v) : v \in VulnData}
    /\ parse_pc = "call"
    /\ cve_data = None
    \* nothing else runs in this specification
    /\ ClientsInit
    /\ CallersIdle
    /\ ScanIdle
    /\ nvd_feed = [id \in CveIds |-> None]
    /\ epss_feed = [id \in CveIds |-> None]
    /\ CallIdle
    /\ cvss_score = None /\ epss_score = None /\ in_kev = FALSE
    /\ asset_criticality = 10 /\ network_reachability = 10
    /\ score_pc = "none" /\ score_result = None

ParseCveResponse ==
    /\ parse_pc = "call"
    /\ IF ParseRaises(vuln_data[1])
       THEN parse_pc' = "raised" /\ cve_data' = None
       ELSE /\ parse_pc' = "returned"
            /\ cve_data' = Some(_parse_cve_response(vuln_data[1]))
    /\ UNCHANGED <<vuln_data, now, scoreVars, bulkVars, refreshVars, callerVars,
                   scanVars>>

NextParse == ParseCveResponse

SpecParse == InitParse /\ [][NextParse]_vars

(***************************************************************************)
(* C24: NVDClient._parse_cve_response takes the v3 base score and vector   *)
(* from the CVSS v3.1 metric list when the response has one, otherwise     *)
(* from the v3.0 list, otherwise reports no v3 score; in all three cases   *)
(* the v2 base score is captured when a v2 metric is present; and the      *)
(* returned reference list never holds more than 10 URLs.                  *)
(***************************************************************************)
ParseReturned == parse_pc = "returned"

\* the argument and the returned dict of the call
Item == vuln_data[1]
Parsed == cve_data[1]

\* the score and the vector of the first entry of a metric list
ScoreAndVector(list) == <<list[1][1].baseScore, list[1][1].vectorString>>

C24_ParsePrefersV31AndLimitsReferences ==
    ParseReturned =>
        /\ <<Parsed.cvss_v3_score, Parsed.cvss_v3_vector>> =
               IF Item.cvssMetricV31 # None
               THEN ScoreAndVector(Item.cvssMetricV31)
               ELSE IF Item.cvssMetricV30 # None
                    THEN ScoreAndVector(Item.cvssMetricV30)
                    ELSE <<None, None>>
        /\ Item.cvssMetricV2 # None =>
               Parsed.cvss_v2_score = ScoreAndVector(Item.cvssMetricV2)[1]
        /\ Item.cvssMetricV2 = None => Parsed.cvss_v2_score = None
        /\ Len(Parsed.references) <= 10

\* both v3 lists and a v2 list are present with different scores, and more
\* than ten references carry a url
C24_Witness ==
    /\ ParseReturned
    /\ Item.cvssMetricV31 = Some(<<CvssData(91), CvssData(90)>>)
    /\ Item.cvssMetricV30 = Some(<<CvssData(70)>>)
    /\ Item.cvssMetricV2 = Some(<<CvssData(50)>>)
    /\ Len(Item.references) = 12
    /\ Parsed.cvss_v3_score = Some(91)
    /\ Parsed.cvss_v2_score = Some(50)
    /\ Len(Parsed.references) = 10

\* only the v3.0 list is present
C24_WitnessV30 ==
    /\ ParseReturned
    /\ Item.cvssMetricV31 = None
    /\ Item.cvssMetricV30 = Some(<<CvssData(70)>>)
    /\ Parsed.cvss_v3_score = Some(70)

(***************************************************************************)
(* C25: in every result of enrich_vulnerability, kev_details is present    *)
(* exactly when in_kev is true, and it is then the catalog entry of that   *)
(* same identifier; this holds also when a catalog refresh runs            *)
(* concurrently with the enrichment.                                       *)
(***************************************************************************)
C25_KevDetailsIffInKev ==
    \A k \in 1..Len(results) :
        LET r == results[k]
        IN  /\ r.kev_details # None <=> r.in_kev
            /\ r.in_kev => r.kev_details[1].cve_id = r.cve_id

\* an identifier enriched as listed, with its entry, while a refresh that
\* has already failed once is waiting for the feed
C25_Witness ==
    /\ pc = "done"
    /\ Len(results) = 1
    /\ results[1].in_kev
    /\ results[1].kev_details = Some(KevEntry(results[1].cve_id))
    /\ kev_pc = "fetching"
    /\ kev_attempts > 0

\* an identifier enriched as not listed although the catalog holds it by the
\* time the call returns
C25_WitnessNotListed ==
    /\ pc = "done"
    /\ Len(results) = 1
    /\ ~results[1].in_kev
    /\ results[1].kev_details = None
    /\ results[1].cve_id \in kev_cve_set

(***************************************************************************)
(* C26: in every result returned by score_vulnerabilities, the             *)
(* exploit-probability value used for scoring (factors.epss_score) and the *)
(* result's reported epss_score field agree: both are absent or both hold  *)
(* the same value, for every outcome of the bulk pre-fetch and of the      *)
(* per-identifier fetch.                                                   *)
(***************************************************************************)
C26_ScoredEpssIsReportedEpss ==
    pc = "done" =>
        \A k \in 1..Len(results) :
            results[k].factors.epss_score = results[k].epss_score

(***************************************************************************)
(* C27: when no source fetch raises, score_vulnerabilities returns exactly *)
(* one result per element of its input list: the output has the same       *)
(* length as the input (duplicates included) and the multiset of result    *)
(* cve_id values equals the multiset of input identifiers.                 *)
(***************************************************************************)
\* how often the identifier occurs in the input list / in the returned list
TimesInInput(id) == Cardinality({i \in 1..Len(cve_ids) : cve_ids[i] = id})
TimesInOutput(id) == Cardinality({k \in 1..Len(results) : results[k].cve_id = id})

\* the call is over and no get_cve has exhausted its attempts
EndedWithoutRaise == pc \in {"done", "raised"} /\ failed_cve = {}

C27_OneResultPerInputElement ==
    EndedWithoutRaise =>
        /\ pc = "done"
        /\ Len(results) = Len(cve_ids)
        /\ \A id \in CveIds : TimesInOutput(id) = TimesInInput(id)

\* a returned list for an input that names one identifier twice and another
\* one once
C27_Witness ==
    /\ pc = "done"
    /\ Len(cve_ids) = 3
    /\ \E id \in CveIds : TimesInInput(id) = 2 /\ TimesInOutput(id) = 2
    /\ \E id \in CveIds : TimesInInput(id) = 1 /\ TimesInOutput(id) = 1

(***************************************************************************)
(* C28: after any sequence of refresh_catalog calls, successful or failed, *)
(* get_catalog_stats reports a null last_updated only when total_cves is   *)
(* 0: a catalog that holds entries always has the timestamp of a completed *)
(* refresh.                                                                *)
(***************************************************************************)
\* get_catalog_stats: total_cves and last_updated
total_cves == Cardinality(DOMAIN kev_catalog)
last_updated == kev_last_updated

C28_EntriesImplyTimestamp ==
    kev_pc \in {"idle", "returned", "raised"} =>
        (last_updated = None => total_cves = 0)

(***************************************************************************)
(* Concurrent direct calls of NVDClient.get_cve and                        *)
(* EPSSClient.get_epss_score on one event loop.  A caller runs from one    *)
(* await to the next in one step: the cache check and the sending of the   *)
(* request, then the arrival of the response (or the failure of the        *)
(* request), and for get_cve the sleep of @retry before the next attempt.  *)
(* Each caller makes one call.                                             *)
(***************************************************************************)
ExpiresOf(op) == IF op = "get_cve" THEN cve_expires ELSE epss_expires
CacheOf(op) == IF op = "get_cve" THEN cve_cache ELSE epss_cache

\* what the upstream answers for the identifier: the dict the client builds
\* from the response, or None (not found / no data)
AnswerOf(op, id) ==
    IF op = "get_cve" THEN nvd_feed[id]
    ELSE IF epss_feed[id] = None THEN None ELSE Some(EpssRecord(id))

\* the body of the function up to its first await: `if cve_id in cache:
\* return cache[cve_id]`, else the request is sent and the caller is suspended
EnterFetch(c, op, id, failed) ==
    IF id \in LiveKeys(ExpiresOf(op))
    THEN /\ callers' = [callers EXCEPT ![c] =
                [pc |-> "returned", op |-> op, cve_id |-> id,
                 attempts |-> failed, result |-> Some(CacheOf(op)[id])]]
         /\ requests_sent' = requests_sent
    ELSE /\ callers' = [callers EXCEPT ![c] =
                [pc |-> "requesting", op |-> op, cve_id |-> id,
                 attempts |-> failed, result |-> None]]
         /\ requests_sent' = [requests_sent EXCEPT ![<<op, id>>] = @ + 1]

FetchCalled(c) ==
    /\ callers[c].pc = "idle"
    /\ \E op \in Ops, id \in CveIds : EnterFetch(c, op, id, 0)
    /\ UNCHANGED <<now, parseVars, scanVars, scoreVars, refreshVars, bulkVars>>

\* the response arrives: an answer with data is cached and returned, an
\* empty one returns None
FetchAnswered(c) ==
    LET op == callers[c].op
        id == callers[c].cve_id
        new == IF AnswerOf(op, id) = None THEN EmptyMap
               ELSE [i \in {id} |-> AnswerOf(op, i)[1]]
    IN  /\ callers[c].pc = "requesting"
        /\ IF op = "get_cve"
           THEN /\ cve_cache' = StoredValues(cve_cache, cve_expires, new)
                /\ cve_expires' = StoredExpiry(cve_expires, new, CVE_CACHE_TTL)
                /\ UNCHANGED epssCacheVars
           ELSE /\ epss_cache' = StoredValues(epss_cache, epss_expires, new)
                /\ epss_expires' = StoredExpiry(epss_expires, new, EPSS_CACHE_TTL)
                /\ UNCHANGED nvdCacheVars
        /\ callers' = [callers EXCEPT ![c].pc = "returned",
                                      ![c].result = AnswerOf(op, id)]
        /\ UNCHANGED <<now, parseVars, scanVars, scoreVars, refreshVars, kevVars,
                       feedVars, callVars, historyVars, requests_sent>>

\* the request fails: get_epss_score returns None; get_cve re-raises, and
\* @retry sleeps before the next attempt or, after the third, raises
FetchFailed(c) ==
    /\ callers[c].pc = "requesting"
    /\ IF callers[c].op = "get_epss_score"
       THEN callers' = [callers EXCEPT ![c].pc = "returned"]
       ELSE callers' = [callers EXCEPT
                ![c].attempts = @ + 1,
                ![c].pc = IF callers[c].attempts + 1 = MAX_ATTEMPTS
                          THEN "raised" ELSE "waiting"]
    /\ UNCHANGED <<now, parseVars, scanVars, scoreVars, refreshVars, bulkVars,
                   requests_sent>>

\* the sleep of @retry is over: get_cve runs again from its first line
FetchRetried(c) ==
    /\ callers[c].pc = "waiting"
    /\ EnterFetch(c, callers[c].op, callers[c].cve_id, callers[c].attempts)
    /\ UNCHANGED <<now, parseVars, scanVars, scoreVars, refreshVars, bulkVars>>

NextCallers ==
    \E c \in Callers :
        \/ FetchCalled(c)
        \/ FetchAnswered(c)
        \/ FetchFailed(c)
        \/ FetchRetried(c)

SpecCallers == Init /\ [][NextCallers]_vars

(***************************************************************************)
(* C29: when two get_cve calls (or two get_epss_score calls) for the same  *)
(* uncached identifier run concurrently, the second starting while the     *)
(* first is suspended on its network request, at most one network request  *)
(* is issued for that identifier.                                          *)
(***************************************************************************)
\* the callers inside a first attempt of the fetch of the identifier, each
\* suspended on a request
Suspended(op, id) ==
    {c \in Callers : /\ callers[c].pc = "requesting"
                     /\ callers[c].op = op
                     /\ callers[c].cve_id = id
                     /\ callers[c].attempts = 0}

C29_ConcurrentCallsShareOneRequest ==
    \A op \in Ops, id \in CveIds :
        Cardinality(Suspended(op, id)) >= 2 => requests_sent[<<op, id>>] <= 1

(***************************************************************************)
(* create_scan (api/v1/scans.py), one request after the other, with the    *)
(* session that get_db hands to it.  The tables hold what has been         *)
(* committed; session_links holds the ScanVulnerability rows added since   *)
(* the last commit.  A step runs from one await to the next; the database  *)
(* awaits themselves succeed.  The requests carry no asset_id, so          *)
(* asset_criticality keeps its 1.0; vuln.last_seen is left out.            *)
(***************************************************************************)
MaxScans == 2
MaxScanLen == 2

\* the scan the request in progress has created
CurrentScan == Len(db_scans)

ScanCve == scan_cve_ids[scan_idx]

\* severity_counts[vuln.severity] = severity_counts.get(vuln.severity, 0) + 1
Counted(severity) == [severity_counts EXCEPT ![severity] = @ + 1]

\* Scan(status="processing", started_at=utcnow()); db.add; db.commit
CreateScanCalled ==
    /\ scan_pc = "idle"
    /\ Len(db_scans) < MaxScans
    /\ scan_cve_ids' \in Lists(MaxScanLen)
    /\ db_scans' = Append(db_scans,
           [ status |-> "processing", started_at |-> now,
             completed_at |-> None, total_vulnerabilities |-> 0,
             counts |-> NoCounts ])
    /\ scan_pc' = "lookup"
    /\ scan_outcome' = "none"
    /\ scan_idx' = 1
    /\ scan_attempts' = 0
    /\ scan_nvd_data' = None
    /\ severity_counts' = NoCounts
    /\ session_links' = {}
    /\ UNCHANGED <<now, parseVars, callerVars, scoreVars, refreshVars, bulkVars,
                   db_vulns, db_links>>

\* the select finds the vulnerability: it is linked to the scan and counted
ScanLinksKnown ==
    /\ scan_pc = "lookup"
    /\ scan_idx <= Len(scan_cve_ids)
    /\ ScanCve \in DOMAIN db_vulns
    /\ session_links' = session_links \cup {<<CurrentScan, ScanCve>>}
    /\ severity_counts' = Counted(db_vulns[ScanCve].severity)
    /\ scan_idx' = scan_idx + 1
    /\ UNCHANGED <<now, parseVars, callerVars, scoreVars, refreshVars, bulkVars,
                   scan_pc, scan_outcome, scan_cve_ids, scan_attempts,
                   scan_nvd_data, db_scans, db_vulns, db_links>>

\* the select finds nothing: enrich_vulnerability is called and awaits get_cve
ScanStartsEnrich ==
    /\ scan_pc = "lookup"
    /\ scan_idx <= Len(scan_cve_ids)
    /\ ScanCve \notin DOMAIN db_vulns
    /\ scan_pc' = "nvd"
    /\ UNCHANGED <<now, parseVars, callerVars, scoreVars, refreshVars, bulkVars,
                   scan_outcome, scan_cve_ids, scan_idx, scan_attempts,
                   scan_nvd_data, severity_counts, dbVars>>

\* the loop is over: the scan gets its counts, status "completed" and
\* completed_at, and is committed; create_scan returns and get_db closes
ScanCompletes ==
    /\ scan_pc = "lookup"
    /\ scan_idx > Len(scan_cve_ids)
    /\ db_scans' = [db_scans EXCEPT ![CurrentScan] =
           [ status |-> "completed", started_at |-> @.started_at,
             completed_at |-> Some(now),
             total_vulnerabilities |-> Len(scan_cve_ids),
             counts |-> severity_counts ]]
    /\ db_links' = db_links \cup session_links
    /\ session_links' = {}
    /\ scan_pc' = "ended"
    /\ scan_outcome' = "returned"
    /\ UNCHANGED <<now, parseVars, callerVars, scoreVars, refreshVars, bulkVars,
                   scan_cve_ids, scan_idx, scan_attempts, scan_nvd_data,
                   severity_counts, db_vulns>>

ScanGetCveCacheHit ==
    /\ scan_pc = "nvd"
    /\ ScanCve \in LiveKeys(cve_expires)
    /\ scan_nvd_data' = Some(cve_cache[ScanCve])
    /\ scan_pc' = "epss"
    /\ UNCHANGED <<now, parseVars, callerVars, scoreVars, refreshVars, bulkVars,
                   scan_outcome, scan_cve_ids, scan_idx, scan_attempts,
                   severity_counts, dbVars>>

ScanGetCveFetched ==
    /\ scan_pc = "nvd"
    /\ ScanCve \notin LiveKeys(cve_expires)
    /\ scan_nvd_data' = nvd_feed[ScanCve]
    /\ LET new == IF nvd_feed[ScanCve] = None THEN EmptyMap
                  ELSE [id \in {ScanCve} |-> nvd_feed[id][1]]
       IN  /\ cve_cache' = StoredValues(cve_cache, cve_expires, new)
           /\ cve_expires' = StoredExpiry(cve_expires, new, CVE_CACHE_TTL)
    /\ scan_pc' = "epss"
    /\ UNCHANGED <<now, parseVars, callerVars, scoreVars, refreshVars,
                   epssCacheVars, kevVars, feedVars, callVars, historyVars,
                   scan_outcome, scan_cve_ids, scan_idx, scan_attempts,
                   severity_counts, dbVars>>

\* the request of get_cve fails: @retry calls again, and after the third
\* failure the exception leaves enrich_vulnerability and create_scan, neither
\* of which handles it; get_db rolls the session back and re-raises
ScanGetCveFailed ==
    /\ scan_pc = "nvd"
    /\ ScanCve \notin LiveKeys(cve_expires)
    /\ scan_attempts' = scan_attempts + 1
    /\ IF scan_attempts' = MAX_ATTEMPTS
       THEN /\ scan_pc' = "ended"
            /\ scan_outcome' = "raised"
            /\ session_links' = {}
       ELSE /\ scan_pc' = "nvd"
            /\ scan_outcome' = scan_outcome
            /\ session_links' = session_links
    /\ UNCHANGED <<now, parseVars, callerVars, scoreVars, refreshVars, bulkVars,
                   scan_cve_ids, scan_idx, scan_nvd_data, severity_counts,
                   db_scans, db_vulns, db_links>>

\* the rest of the iteration, from the return of get_epss_score on: the KEV
\* lookup, calculate_risk_score with the EPSS value of the enrichment, the
\* commit of the new vulnerability (and of the links added so far), its link
\* and its count
ScanFinishIteration(epss_data) ==
    LET cvss_v3_score == IF scan_nvd_data = None THEN None
                         ELSE scan_nvd_data[1].cvss_v3_score
        epss == IF epss_data = None THEN None
                ELSE Some(epss_data[1].epss_score)
        score == calculate_risk_score(cvss_v3_score, epss,
                     ScanCve \in kev_cve_set, 10, 10)
        vuln == [ cve_id |-> ScanCve, risk_score |-> score.risk_score,
                  severity |-> score.severity ]
    IN  /\ db_vulns' = [id \in DOMAIN db_vulns \cup {ScanCve} |->
                           IF id = ScanCve THEN vuln ELSE db_vulns[id]]
        /\ db_links' = db_links \cup session_links
        /\ session_links' = {<<CurrentScan, ScanCve>>}
        /\ severity_counts' = Counted(score.severity)
        /\ scan_idx' = scan_idx + 1
        /\ scan_attempts' = 0
        /\ scan_nvd_data' = None
        /\ scan_pc' = "lookup"
        /\ UNCHANGED <<scan_outcome, scan_cve_ids, db_scans>>

ScanGetEpssCacheHit ==
    /\ scan_pc = "epss"
    /\ ScanCve \in LiveKeys(epss_expires)
    /\ ScanFinishIteration(Some(epss_cache[ScanCve]))
    /\ UNCHANGED <<now, parseVars, callerVars, scoreVars, refreshVars, bulkVars>>

ScanGetEpssFetched ==
    /\ scan_pc = "epss"
    /\ ScanCve \notin LiveKeys(epss_expires)
    /\ LET new == IF epss_feed[ScanCve] = None THEN EmptyMap
                  ELSE [id \in {ScanCve} |-> EpssRecord(id)]
       IN  /\ epss_cache' = StoredValues(epss_cache, epss_expires, new)
           /\ epss_expires' = StoredExpiry(epss_expires, new, EPSS_CACHE_TTL)
    /\ IF epss_feed[ScanCve] = None
       THEN ScanFinishIteration(None)
       ELSE ScanFinishIteration(Some(EpssRecord(ScanCve)))
    /\ UNCHANGED <<now, parseVars, callerVars, scoreVars, refreshVars,
                   nvdCacheVars, kevVars, feedVars, callVars, historyVars>>

\* the request of get_epss_score fails: it returns None
ScanGetEpssFailed ==
    /\ scan_pc = "epss"
    /\ ScanCve \notin LiveKeys(epss_expires)
    /\ ScanFinishIteration(None)
    /\ UNCHANGED <<now, parseVars, callerVars, scoreVars, refreshVars, bulkVars>>

\* the response (201 or the error) has been sent: the request has ended
CreateScanEnds ==
    /\ scan_pc = "ended"
    /\ scan_pc' = "idle"
    /\ scan_outcome' = "none"
    /\ scan_cve_ids' = <<>>
    /\ scan_idx' = 0
    /\ scan_attempts' = 0
    /\ scan_nvd_data' = None
    /\ severity_counts' = NoCounts
    /\ UNCHANGED <<now, parseVars, callerVars, scoreVars, refreshVars, bulkVars,
                   dbVars>>

NextScan ==
    \/ CreateScanCalled
    \/ ScanLinksKnown
    \/ ScanStartsEnrich
    \/ ScanCompletes
    \/ ScanGetCveCacheHit
    \/ ScanGetCveFetched
    \/ ScanGetCveFailed
    \/ ScanGetEpssCacheHit
    \/ ScanGetEpssFetched
    \/ ScanGetEpssFailed
    \/ CreateScanEnds

\* the identifiers the upstreams hold data for
KnownToNvd == {id \in CveIds : nvd_feed[id] # None}
KnownToEpss == {id \in CveIds : epss_feed[id] # None}

\* the process starts with empty caches, or the scoring endpoints have
\* filled them with what the upstreams hold before the first scan is created
InitScan ==
    /\ nvd_feed \in [CveIds -> NvdAnswers]
    /\ epss_feed \in [CveIds -> EpssAnswers]
    /\ now = 0
    /\ \E warm \in BOOLEAN :
           /\ cve_cache = IF warm THEN [id \in KnownToNvd |-> nvd_feed[id][1]]
                          ELSE EmptyMap
           /\ cve_expires = IF warm THEN [id \in KnownToNvd |-> CVE_CACHE_TTL]
                            ELSE EmptyMap
           /\ epss_cache = IF warm THEN [id \in KnownToEpss |-> EpssRecord(id)]
                           ELSE EmptyMap
           /\ epss_expires = IF warm THEN [id \in KnownToEpss |-> EPSS_CACHE_TTL]
                             ELSE EmptyMap
    /\ kev_catalog = EmptyMap /\ kev_cve_set = {} /\ kev_last_updated = None
    /\ kev_pc = "idle" /\ kev_attempts = 0
    /\ kev_count = None /\ kev_before = None /\ kev_feed = None
    /\ CallIdle
    /\ ParseIdle
    /\ CallersIdle
    /\ ScanIdle
    /\ cvss_score = None /\ epss_score = None /\ in_kev = FALSE
    /\ asset_criticality = 10 /\ network_reachability = 10
    /\ score_pc = "none" /\ score_result = None

\* the steps of a request that has been accepted
ScanProgress ==
    \/ ScanLinksKnown
    \/ ScanStartsEnrich
    \/ ScanCompletes
    \/ ScanGetCveCacheHit
    \/ ScanGetCveFetched
    \/ ScanGetCveFailed
    \/ ScanGetEpssCacheHit
    \/ ScanGetEpssFetched
    \/ ScanGetEpssFailed
    \/ CreateScanEnds

\* the event loop runs a handler whenever it can proceed, and every request
\* to an upstream ends, with a response or with an error (timeout=30.0);
\* whether another create_scan request arrives is up to the clients
SpecScan == InitScan /\ [][NextScan]_vars /\ WF_vars(ScanProgress)

(***************************************************************************)
(* C30: every scan record that create_scan commits with status             *)
(* "processing" eventually reaches status "completed" with completed_at    *)
(* set, for every outcome of the per-identifier enrichment calls made      *)
(* while processing it; no scan record is left in "processing" once the    *)
(* request has ended.                                                      *)
(***************************************************************************)
Processing(s) == s <= Len(db_scans) /\ db_scans[s].status = "processing"

Completed(s) ==
    /\ s <= Len(db_scans)
    /\ db_scans[s].status = "completed"
    /\ db_scans[s].completed_at # None

C30_ProcessingScanCompletes ==
    \A s \in 1..MaxScans : Processing(s) ~> Completed(s)
====
